---- MODULE Spec2Model ----
\* Polaris C++ client core: the provider request pipeline (provider_api.cpp),
\* the plugin registry (plugin_manager.cpp) and the outlier-detection executor
\* (outlier_detection_executor.cpp), as state machines.
EXTENDS Integers, Sequences, FiniteSets, TLC

\* ------------------------------------------------------------------ bounds
\* Largest api_max_retry_times a Context is configured with.
MaxRetryTimes == 2
\* Largest timeout (ms) of a request and of api_default_timeout.
MaxTimeout == 3
\* Largest duration (ms) of one server-connector invocation; it may exceed
\* the timeout the invocation was given.
MaxUseTime == 3
\* Largest api_retry_interval (ms).
MaxRetryInterval == 2

\* ------------------------------------------------------------ return codes
kReturnOk == "kReturnOk"
kReturnInvalidArgument == "kReturnInvalidArgument"
kReturnNetworkFailed == "kReturnNetworkFailed"
kReturnServerError == "kReturnServerError"
kReturnPluginError == "kReturnPluginError"
kReturnExistedResource == "kReturnExistedResource"
kReturnTimeout == "kReturnTimeout"
NoReturn == "NoReturn"

\* The codes a server connector hands back: success, the two retryable
\* faults, and terminal codes passed through unchanged.
ConnectorCodes ==
    {kReturnOk, kReturnNetworkFailed, kReturnServerError,
     kReturnInvalidArgument, kReturnTimeout}

\* ---------------------------------------------------------------- requests
kPortLimit == 65535

FieldStrings == {"", "x"}
Ports == {0, 1, kPortLimit, kPortLimit + 1}

\* The fields the request accessors expose. A request built without an
\* instance id has an empty one; one built without a timeout has none.
AllRequests ==
    {r \in [service_namespace : FieldStrings, service_name : FieldStrings,
            service_token : FieldStrings, host : FieldStrings, port : Ports,
            has_instance_id : BOOLEAN, instance_id : FieldStrings,
            has_timeout : BOOLEAN, timeout : 0..MaxTimeout] :
        /\ (~r.has_instance_id => r.instance_id = "")
        /\ (~r.has_timeout => r.timeout = 0)}

\* InstanceRegisterRequest carries no instance id.
RegisterRequests == {r \in AllRequests : ~r.has_instance_id}

NoRequest ==
    [service_namespace |-> "", service_name |-> "", service_token |-> "",
     host |-> "", port |-> 0, has_instance_id |-> FALSE, instance_id |-> "",
     has_timeout |-> FALSE, timeout |-> 0]

VARIABLES
    \* Context tunables (ContextImpl): fixed at construction.
    api_max_retry_times, api_default_timeout, api_retry_interval,
    \* The provider call in progress.
    pc,               \* "idle" | "retry" | "in_call" | "sleeping" | "done"
    api,              \* "none" | "Register" | "Deregister" | "Heartbeat"
    req,              \* the request of the call
    valid,            \* what CheckInstance / CheckInstanceOrId returned
    timeout_ms,       \* remaining budget
    retry_times,      \* remaining attempts
    ret_code,         \* local ret_code
    connector_calls,  \* server-connector invocations of this call, in order
    backoff,          \* local backoff of the iteration in progress
    sleeps,           \* usleep calls of this call, in order: the backoff
                      \* (ms) and what usleep was given (whole ms + us)
    stat_records,     \* codes given to ApiStat::Record in this call
    returned,         \* the value returned to the caller, NoReturn before
    \* PluginManager (the process-wide registry).
    plugin_factory_map_,    \* name + type string -> factory
    lb_plugin_factor_map_,  \* LoadBalanceType -> factory
    lb_registrations,       \* history: the load-balancer registrations that
                            \* returned kReturnOk, in order, once each
    reg_pre,                \* history: the two maps before the last operation
    reg_last,               \* history: the last registry operation and its result
    rcall,                  \* per thread: its GetPlugin / GetLoadBalancePlugin
                            \* between lock_.Unlock() and the factory call
                            \* (arguments, local plugin_factory, and history:
                            \* whether a registration ran since the Unlock)
    \* PluginManager's instance pre-update handler chain and its callers.
    instancePreUpdateHandlers_,  \* the handler vector, in chain order
    instancePreUpdatelock_,      \* the thread holding the mutex, or NoThread
    hpc,          \* per thread: where it is in its handler-chain operation
    harg,         \* per thread: the (handler, bFront) of its Register/Deregister
    hround,       \* per thread: its OnPreUpdateServiceData call (arguments,
                  \* and history: the vector the size test saw empty, the
                  \* vector copied, whether a handler re-entered)
    handlers,     \* per thread: the local copy of line 244
    hidx,         \* per thread: position of the loop of line 247
    hinvoked,     \* per thread, history: handler invocations of this round
    hres,         \* per thread: the code its Register/Deregister is about to
                  \* return, and (history) the chain the call found
    \* OutlierDetectionExecutor, its reactor and the service contexts.
    service_contexts,      \* the Context's service contexts
    ref_count,             \* per service context: its reference count
    setups,                \* history: calls of SetupWork so far
    task_queue,            \* reactor: tasks submitted to run at once
    timing_tasks,          \* reactor: ms left of each armed timing task
    stop_requested,        \* reactor: told to stop
    reactor_stopped,       \* reactor: its loop has ended
    epc,                   \* reactor thread: "idle" | "detect"
    all_service_contexts,  \* TimingDetect's local vector
    ei,                    \* TimingDetect's loop index (from 1)
    run,                   \* history of the current or last run: counts
                           \* before it, DecrementRef calls, DetectInstance
                           \* calls, AddTimingTask delays
    runs,                  \* history: runs of TimingDetect begun (capped)
    since_run,             \* history: ms since the last run began (capped)
    last_gap,              \* history: ms between the last two run starts
    \* ProviderApi handles and Contexts. A Context is known by its address:
    \* a pointer is an address, and an address freed by a delete can be the
    \* address of a Context made later.
    context_mode,     \* per address: the ContextMode of the Context there
    context_state,    \* per address: "none" (never used) | "alive" |
                      \* "deleted" (freed, no Context made there since)
    app_pointers,     \* the addresses Context::Create returned to the
                      \* application, which keeps them
    destroy_count,    \* history, per address: times the Context made there
                      \* last was deleted (capped)
    context_,         \* per handle: ProviderApiImpl::context_
    handle_live,      \* per handle: created and not yet destroyed
    olast             \* history: the last handle destruction, and whether
                      \* another live handle referred to its Context

provider_vars ==
    <<api_max_retry_times, api_default_timeout, api_retry_interval, pc, api,
      req, valid, timeout_ms, retry_times, ret_code, backoff,
      connector_calls, sleeps,
      stat_records, returned>>

registry_vars ==
    <<plugin_factory_map_, lb_plugin_factor_map_, lb_registrations, reg_pre,
      reg_last, rcall>>

handler_vars ==
    <<instancePreUpdateHandlers_, instancePreUpdatelock_, hpc, harg, hround,
      handlers, hidx, hinvoked, hres>>

executor_vars ==
    <<service_contexts, ref_count, setups, task_queue, timing_tasks,
      stop_requested, reactor_stopped, epc, all_service_contexts, ei, run,
      runs, since_run, last_gap>>

owner_vars ==
    <<context_mode, context_state, app_pointers, destroy_count, context_,
      handle_live, olast>>

vars ==
    <<provider_vars, registry_vars, handler_vars, executor_vars, owner_vars>>

\* What each subsystem's actions leave alone.
not_provider_vars ==
    <<registry_vars, handler_vars, executor_vars, owner_vars>>
not_registry_vars ==
    <<provider_vars, handler_vars, executor_vars, owner_vars>>
not_handler_vars ==
    <<provider_vars, registry_vars, executor_vars, owner_vars>>
not_executor_vars ==
    <<provider_vars, registry_vars, handler_vars, owner_vars>>
not_owner_vars ==
    <<provider_vars, registry_vars, handler_vars, executor_vars>>

\* ------------------------------------------------------------- validation
\* CheckInstance with the upper port limit forgotten.
CheckInstance_NoUpperPort(request) ==
    /\ request.service_namespace # ""
    /\ request.service_name # ""
    /\ request.service_token # ""
    /\ request.host # ""
    /\ request.port > 0

\* CheckInstance<T>(request, action)
CheckInstance(request) ==
    IF request.service_namespace = "" THEN FALSE
    ELSE IF request.service_name = "" THEN FALSE
    ELSE IF request.service_token = "" THEN FALSE
    ELSE IF request.host = "" THEN FALSE
    ELSE IF request.port <= 0 \/ request.port > kPortLimit THEN FALSE
    ELSE TRUE

\* CheckInstanceOrId<T>(request, action)
CheckInstanceOrId(request) ==
    IF request.has_instance_id
    THEN IF request.instance_id = "" THEN FALSE
         ELSE IF request.service_token = "" THEN FALSE
         ELSE TRUE
    ELSE CheckInstance(request)

\* ------------------------------------------------------------- retry loop
Min(a, b) == IF a <= b THEN a ELSE b

\* ret_code pre-initialised to the timeout code instead.
InitialRetCode_Timeout == kReturnTimeout

\* ReturnCode ret_code = kReturnInvalidArgument;
InitialRetCode == kReturnInvalidArgument

\* request.HasTimeout() ? request.GetTimeout() : GetApiDefaultTimeout()
InitialTimeout(request, default_timeout) ==
    IF request.has_timeout THEN request.timeout ELSE default_timeout

\* The loop test written as retry_times-- >= 0: one attempt too many.
LoopTest_OneMore(retries, timeout) == retries >= 0 /\ timeout > 0

\* while (retry_times-- > 0 && timeout_ms > 0): the test, on the value of
\* retry_times before the decrement.
LoopTest(retries, timeout) == retries > 0 /\ timeout > 0

\* The break taken on success only: every failure code is retried.
ShouldBreak_OnlyOnOk(code, use_time, timeout) ==
    code = kReturnOk \/ use_time >= timeout

\* if ((ret_code != kReturnNetworkFailed && ret_code != kReturnServerError)
\*     || use_time >= timeout_ms) break;
ShouldBreak(code, use_time, timeout) ==
    (code # kReturnNetworkFailed /\ code # kReturnServerError)
        \/ use_time >= timeout

\* The backoff not capped by the remaining budget.
Backoff_Uncapped(timeout, retry_interval) == retry_interval

\* std::min(timeout_ms, context_impl->GetApiRetryInterval())
Backoff(timeout, retry_interval) == Min(timeout, retry_interval)

\* usleep(backoff * 1000): the product is an unsigned 64-bit number of
\* microseconds, usleep takes a 32-bit useconds_t, so the thread sleeps
\* (backoff * 1000) mod 2^32 us. 2^32 us are kWrapMs ms and kWrapUs us; the
\* result is given as whole milliseconds and the microseconds over them.
kUsecPerMs == 1000
kWrapMs == 4294967
kWrapUs == 296
UsleepArg(backoff_ms) ==
    LET k0 == backoff_ms \div kWrapMs
        \* microseconds to take off for k wraps, rounded up to whole ms
        OffMs(k) == ((k * kWrapUs) + kUsecPerMs - 1) \div kUsecPerMs
        k == IF backoff_ms - k0 * kWrapMs >= OffMs(k0) THEN k0 ELSE k0 - 1
        rest == (k * kWrapUs) % kUsecPerMs
    IN [backoff |-> backoff_ms,
        ms |-> backoff_ms - k * kWrapMs - OffMs(k),
        us |-> IF rest = 0 THEN 0 ELSE kUsecPerMs - rest]

\* A recorder that drops the retryable codes.
Record_DropsRetryable(records, code) ==
    IF code \in {kReturnNetworkFailed, kReturnServerError}
    THEN records
    ELSE Append(records, code)

\* api_stat.Record(ret_code)
Record(records, code) == Append(records, code)

\* The validation gate shared by the three calls: a rejected request is
\* recorded and returned at once; an accepted one enters the retry loop.
Enter(name, request, ok) ==
    /\ api' = name
    /\ req' = request
    /\ valid' = ok
    /\ ret_code' = InitialRetCode
    /\ connector_calls' = <<>>
    /\ sleeps' = <<>>
    /\ backoff' = 0
    /\ IF ~ok
       THEN /\ stat_records' = Record(<<>>, InitialRetCode)
            /\ returned' = InitialRetCode
            /\ pc' = "done"
            /\ UNCHANGED <<timeout_ms, retry_times>>
       ELSE /\ timeout_ms' = InitialTimeout(request, api_default_timeout)
            /\ retry_times' = api_max_retry_times
            /\ stat_records' = <<>>
            /\ returned' = NoReturn
            /\ pc' = "retry"
    /\ UNCHANGED <<api_max_retry_times, api_default_timeout, api_retry_interval>>
    /\ UNCHANGED not_provider_vars

\* ProviderApi::Register, up to the retry loop.
Register ==
    /\ pc = "idle"
    /\ \E request \in RegisterRequests :
        Enter("Register", request, CheckInstance(request))

\* ProviderApi::Deregister, up to the retry loop.
Deregister ==
    /\ pc = "idle"
    /\ \E request \in AllRequests :
        Enter("Deregister", request, CheckInstanceOrId(request))

\* ProviderApi::Heartbeat, up to the retry loop.
Heartbeat ==
    /\ pc = "idle"
    /\ \E request \in AllRequests :
        Enter("Heartbeat", request, CheckInstanceOrId(request))

\* Lines 146-148: the loop test holds and the connector is invoked with the
\* remaining budget; the thread is inside the connector until it answers.
Attempt ==
    /\ pc = "retry"
    /\ LoopTest(retry_times, timeout_ms)
    /\ retry_times' = retry_times - 1
    /\ pc' = "in_call"
    /\ UNCHANGED <<api_max_retry_times, api_default_timeout,
                   api_retry_interval, api, req, valid, timeout_ms, ret_code,
                   backoff, connector_calls, sleeps, stat_records, returned>>
    /\ UNCHANGED not_provider_vars

\* Lines 148-156: the connector answers `code` after `use_time` ms; the call
\* either breaks out (recording and returning the code, lines 159-160) or
\* deducts the attempt, computes the backoff and goes to sleep in usleep.
ConnectorReturn ==
    /\ pc = "in_call"
    /\ \E code \in ConnectorCodes, use_time \in 0..MaxUseTime :
        /\ ret_code' = code
        /\ connector_calls' =
               Append(connector_calls,
                      [timeout |-> timeout_ms, code |-> code,
                       use_time |-> use_time])
        /\ IF ShouldBreak(code, use_time, timeout_ms)
           THEN /\ stat_records' = Record(stat_records, code)
                /\ returned' = code
                /\ pc' = "done"
                /\ UNCHANGED <<timeout_ms, backoff, sleeps>>
           ELSE LET left == timeout_ms - use_time
                    b == Backoff(left, api_retry_interval)
                IN /\ timeout_ms' = left
                   /\ backoff' = b
                   /\ sleeps' = Append(sleeps, UsleepArg(b))
                   /\ pc' = "sleeping"
                   /\ UNCHANGED <<stat_records, returned>>
    /\ UNCHANGED <<api_max_retry_times, api_default_timeout,
                   api_retry_interval, api, req, valid, retry_times>>
    /\ UNCHANGED not_provider_vars

\* Lines 156-157: usleep returns, the backoff is deducted and the loop test
\* comes next.
Wake ==
    /\ pc = "sleeping"
    /\ timeout_ms' = timeout_ms - backoff
    /\ backoff' = 0
    /\ pc' = "retry"
    /\ UNCHANGED <<api_max_retry_times, api_default_timeout,
                   api_retry_interval, api, req, valid, retry_times, ret_code,
                   connector_calls, sleeps, stat_records, returned>>
    /\ UNCHANGED not_provider_vars

\* The loop test fails: the call records ret_code and returns it.
LoopExit ==
    /\ pc = "retry"
    /\ ~LoopTest(retry_times, timeout_ms)
    /\ retry_times' = retry_times - 1
    /\ stat_records' = Record(stat_records, ret_code)
    /\ returned' = ret_code
    /\ pc' = "done"
    /\ UNCHANGED <<api_max_retry_times, api_default_timeout,
                   api_retry_interval, api, req, valid, timeout_ms, ret_code,
                   backoff, connector_calls, sleeps>>
    /\ UNCHANGED not_provider_vars

\* The caller has its result; the next provider call may start.
Return ==
    /\ pc = "done"
    /\ pc' = "idle"
    /\ api' = "none"
    /\ req' = NoRequest
    /\ valid' = FALSE
    /\ timeout_ms' = 0
    /\ retry_times' = 0
    /\ ret_code' = InitialRetCode
    /\ connector_calls' = <<>>
    /\ sleeps' = <<>>
    /\ backoff' = 0
    /\ stat_records' = <<>>
    /\ returned' = NoReturn
    /\ UNCHANGED <<api_max_retry_times, api_default_timeout, api_retry_interval>>
    /\ UNCHANGED not_provider_vars

\* A ProviderApi on a Context whose tunables are drawn from the given sets;
\* no call in progress.
ProviderInitWith(retry_times_set, timeout_set, interval_set) ==
    /\ api_max_retry_times \in retry_times_set
    /\ api_default_timeout \in timeout_set
    /\ api_retry_interval \in interval_set
    /\ pc = "idle"
    /\ api = "none"
    /\ req = NoRequest
    /\ valid = FALSE
    /\ timeout_ms = 0
    /\ retry_times = 0
    /\ ret_code = InitialRetCode
    /\ connector_calls = <<>>
    /\ sleeps = <<>>
    /\ backoff = 0
    /\ stat_records = <<>>
    /\ returned = NoReturn

\* The smallest backoff whose microseconds do not fit useconds_t, and a
\* budget that lets a call back off that long and go on.
LargeInterval == kWrapMs + 1
LargeTimeout == 2 * LargeInterval + MaxTimeout

\* Contexts with small tunables, and one with a retry interval and a
\* default timeout of more than an hour.
ProviderInit ==
    \/ ProviderInitWith(0..MaxRetryTimes, 1..MaxTimeout, 0..MaxRetryInterval)
    \/ ProviderInitWith({MaxRetryTimes}, {LargeTimeout}, {LargeInterval})

\* ---------------------------------------------------------- plugin registry
kPluginServerConnector == "kPluginServerConnector"
kPluginLocalRegistry == "kPluginLocalRegistry"
kPluginServiceRouter == "kPluginServiceRouter"
kPluginLoadBalancer == "kPluginLoadBalancer"
kPluginOutlierDetector == "kPluginOutlierDetector"
kPluginCircuitBreaker == "kPluginCircuitBreaker"
kPluginWeightAdjuster == "kPluginWeightAdjuster"
kPluginStatReporter == "kPluginStatReporter"
kPluginAlertReporter == "kPluginAlertReporter"
\* A value outside the PluginType enumerators.
kPluginTypeMaxCount == "kPluginTypeMaxCount"

\* PluginTypeToString(plugin_type)
PluginTypeToString(plugin_type) ==
    CASE plugin_type = kPluginServerConnector -> "ServerConnector"
      [] plugin_type = kPluginLocalRegistry -> "LocalRegistry"
      [] plugin_type = kPluginServiceRouter -> "ServiceRouter"
      [] plugin_type = kPluginLoadBalancer -> "LoadBalancer"
      [] plugin_type = kPluginOutlierDetector -> "OutlierDetector"
      [] plugin_type = kPluginCircuitBreaker -> "CircuitBreaker"
      [] plugin_type = kPluginWeightAdjuster -> "WeightAdjuster"
      [] plugin_type = kPluginStatReporter -> "StatReporter"
      [] plugin_type = kPluginAlertReporter -> "AlertReporter"
      [] OTHER -> "UnknowPluginType"

\* std::string name_with_type = name + PluginTypeToString(plugin_type);
NameWithType(name, plugin_type) == name \o PluginTypeToString(plugin_type)

\* The factories of lines 84-108 and the plugin each one news.
BuiltinProduct ==
    [GrpcServerConnectorFactory |-> "GrpcServerConnector",
     InMemoryRegistryFactory |-> "InMemoryRegistry",
     MonitorStatReporterFactory |-> "MonitorStatReporter",
     LogAlertReporterFactory |-> "LogAlertReporter",
     RandomLoadBalancerFactory |-> "RandomLoadBalancer",
     RingHashLoadBalancerFactory |-> "KetamaLoadBalancer",
     MaglevLoadBalancerFactory |-> "MaglevLoadBalancer",
     L5CstHashLoadBalancerFactory |-> "L5CstHashLoadBalancer",
     SimpleHashLoadBalancerFactory |-> "SimpleHashLoadBalancer",
     CMurmurHashLoadBalancerFactory |-> "L5CstHashLoadBalancer(true)",
     DefaultWeightAdjusterFactory |-> "DefaultWeightAdjuster",
     RuleServiceRouterFactory |-> "RuleServiceRouter",
     NearbyServiceRouterFactory |-> "NearbyServiceRouter",
     SetDivisionServiceRouterFactory |-> "SetDivisionServiceRouter",
     CanaryServiceRouterFactory |-> "CanaryServiceRouter",
     MetadataServiceRouterFactory |-> "MetadataServiceRouter",
     ErrorCountCircuitBreakerFactory |-> "ErrorCountCircuitBreaker",
     ErrorRateCircuitBreakerFactory |-> "ErrorRateCircuitBreaker",
     HttpOutlierDetectorFactory |-> "HttpOutlierDetector",
     TcpOutlierDetectorFactory |-> "TcpOutlierDetector",
     UdpOutlierDetectorFactory |-> "UdpOutlierDetector"]

\* Factories an application registers through polaris::RegisterPlugin: two
\* load balancers reporting the same, new LoadBalanceType, and a factory
\* whose plugin is no load balancer.
UserProduct ==
    [UserLoadBalancerFactoryA |-> "UserLoadBalancerA",
     UserLoadBalancerFactoryB |-> "UserLoadBalancerB",
     UserRouterFactory |-> "UserServiceRouter"]

\* plugin_factory(): the plugin a factory news.
Produce(plugin_factory) ==
    IF plugin_factory \in DOMAIN BuiltinProduct
    THEN BuiltinProduct[plugin_factory]
    ELSE UserProduct[plugin_factory]

\* LoadBalancer::GetLoadBalanceType() of each load-balancer class; a plugin
\* outside this table is no LoadBalancer.
LoadBalanceTypeOfClass ==
    [RandomLoadBalancer |-> "kLoadBalanceTypeWeightedRandom",
     KetamaLoadBalancer |-> "kLoadBalanceTypeRingHash",
     MaglevLoadBalancer |-> "kLoadBalanceTypeMaglevHash",
     L5CstHashLoadBalancer |-> "kLoadBalanceTypeL5CstHash",
     SimpleHashLoadBalancer |-> "kLoadBalanceTypeSimpleHash",
     UserLoadBalancerA |-> "kLoadBalanceTypeUser",
     UserLoadBalancerB |-> "kLoadBalanceTypeUser"]
        @@ ("L5CstHashLoadBalancer(true)" :> "kLoadBalanceTypeCMurmurHash")

\* dynamic_cast<LoadBalancer*>(plugin) != NULL
IsLoadBalancer(plugin) == plugin \in DOMAIN LoadBalanceTypeOfClass

\* load_balancer->GetLoadBalanceType()
GetLoadBalanceType(plugin) == LoadBalanceTypeOfClass[plugin]

\* The out-parameter of GetPlugin / GetLoadBalancePlugin left untouched.
NoPlugin == "NoPlugin"
NoFactory == "NoFactory"

\* map[key] = value
MapPut(map, key, value) ==
    [k \in DOMAIN map \cup {key} |-> IF k = key THEN value ELSE map[k]]

EmptyMap == [k \in {} |-> NoFactory]

\* The type index overwritten by every registration of the type.
RecordLoadBalancer_Overwrite(lb_map, load_balancer_type, plugin_factory) ==
    MapPut(lb_map, load_balancer_type, plugin_factory)

\* Lines 167-172: the first factory of a LoadBalanceType stays.
RecordLoadBalancer(lb_map, load_balancer_type, plugin_factory) ==
    IF load_balancer_type \in DOMAIN lb_map
    THEN lb_map
    ELSE MapPut(lb_map, load_balancer_type, plugin_factory)

\* PluginManager::RegisterPlugin on the maps (factory_map, lb_map): the
\* return code, the maps afterwards and the factories it invoked.
RegisterPluginResult(factory_map, lb_map, name, plugin_type, plugin_factory) ==
    LET name_with_type == NameWithType(name, plugin_type)
        stored == MapPut(factory_map, name_with_type, plugin_factory)
        plugin == Produce(plugin_factory)
    IN IF /\ name_with_type \in DOMAIN factory_map
          /\ factory_map[name_with_type] # plugin_factory
       THEN [ret |-> kReturnPluginError, factory_map |-> factory_map,
             lb_map |-> lb_map, factory_calls |-> <<>>]
       ELSE IF plugin_type # kPluginLoadBalancer
       THEN [ret |-> kReturnOk, factory_map |-> stored,
             lb_map |-> lb_map, factory_calls |-> <<>>]
       ELSE IF ~IsLoadBalancer(plugin)
       THEN [ret |-> kReturnPluginError, factory_map |-> stored,
             lb_map |-> lb_map, factory_calls |-> <<plugin_factory>>]
       ELSE [ret |-> kReturnOk, factory_map |-> stored,
             lb_map |-> RecordLoadBalancer(lb_map, GetLoadBalanceType(plugin),
                                           plugin_factory),
             factory_calls |-> <<plugin_factory>>]

\* GetPlugin written with plugin_factory_map_[name_with_type]: a missing
\* key is inserted.
GetPluginResult_Subscript(factory_map, name, plugin_type) ==
    LET name_with_type == NameWithType(name, plugin_type)
    IN IF name_with_type \notin DOMAIN factory_map
       THEN [ret |-> kReturnPluginError,
             factory_map |-> MapPut(factory_map, name_with_type, NoFactory),
             plugin_factory |-> NoFactory]
       ELSE [ret |-> kReturnOk, factory_map |-> factory_map,
             plugin_factory |-> factory_map[name_with_type]]

\* PluginManager::GetPlugin from lock_.Lock() to lock_.Unlock(): the code
\* it is going to return, the map afterwards and the local plugin_factory.
GetPluginResult(factory_map, name, plugin_type) ==
    LET name_with_type == NameWithType(name, plugin_type)
    IN IF name_with_type \notin DOMAIN factory_map
       THEN [ret |-> kReturnPluginError, factory_map |-> factory_map,
             plugin_factory |-> NoFactory]
       ELSE [ret |-> kReturnOk, factory_map |-> factory_map,
             plugin_factory |-> factory_map[name_with_type]]

\* PluginManager::GetLoadBalancePlugin from lock_.Lock() to lock_.Unlock().
GetLoadBalancePluginResult(lb_map, load_balace_type) ==
    IF load_balace_type \notin DOMAIN lb_map
    THEN [ret |-> kReturnPluginError, plugin_factory |-> NoFactory]
    ELSE [ret |-> kReturnOk, plugin_factory |-> lb_map[load_balace_type]]

\* The registrations of PluginManager::PluginManager(), in order.
DefaultPlugins ==
    << <<"kPluginDefaultServerConnector", kPluginServerConnector, "GrpcServerConnectorFactory">>,
       <<"kPluginDefaultLocalRegistry", kPluginLocalRegistry, "InMemoryRegistryFactory">>,
       <<"kPluginDefaultStatReporter", kPluginStatReporter, "MonitorStatReporterFactory">>,
       <<"kPluginDefaultAlertReporter", kPluginAlertReporter, "LogAlertReporterFactory">>,
       <<"kPluginDefaultLoadBalancer", kPluginLoadBalancer, "RandomLoadBalancerFactory">>,
       <<"kPluginRingHashLoadBalancer", kPluginLoadBalancer, "RingHashLoadBalancerFactory">>,
       <<"kPluginMaglevLoadBalancer", kPluginLoadBalancer, "MaglevLoadBalancerFactory">>,
       <<"kPluginL5CstHashLoadBalancer", kPluginLoadBalancer, "L5CstHashLoadBalancerFactory">>,
       <<"kPluginSimpleHashLoadBalancer", kPluginLoadBalancer, "SimpleHashLoadBalancerFactory">>,
       <<"kPluginCMurmurHashLoadBalancer", kPluginLoadBalancer, "CMurmurHashLoadBalancerFactory">>,
       <<"kPluginDefaultWeightAdjuster", kPluginWeightAdjuster, "DefaultWeightAdjusterFactory">>,
       <<"kPluginRuleServiceRouter", kPluginServiceRouter, "RuleServiceRouterFactory">>,
       <<"kPluginNearbyServiceRouter", kPluginServiceRouter, "NearbyServiceRouterFactory">>,
       <<"kPluginSetDivisionServiceRouter", kPluginServiceRouter, "SetDivisionServiceRouterFactory">>,
       <<"kPluginCanaryServiceRouter", kPluginServiceRouter, "CanaryServiceRouterFactory">>,
       <<"kPluginMetadataServiceRouter", kPluginServiceRouter, "MetadataServiceRouterFactory">>,
       <<"kPluginErrorCountCircuitBreaker", kPluginCircuitBreaker, "ErrorCountCircuitBreakerFactory">>,
       <<"kPluginErrorRateCircuitBreaker", kPluginCircuitBreaker, "ErrorRateCircuitBreakerFactory">>,
       <<"kPluginHttpOutlierDetector", kPluginOutlierDetector, "HttpOutlierDetectorFactory">>,
       <<"kPluginTcpOutlierDetector", kPluginOutlierDetector, "TcpOutlierDetectorFactory">>,
       <<"kPluginUdpOutlierDetector", kPluginOutlierDetector, "UdpOutlierDetectorFactory">> >>

\* The history of load-balancer registrations after one more RegisterPlugin:
\* a registration that returned kReturnOk with a probe is appended (once).
LogRegistration(log, plugin_type, plugin_factory, result) ==
    LET entry == [factory |-> plugin_factory,
                  type |-> GetLoadBalanceType(Produce(plugin_factory))]
    IN IF /\ plugin_type = kPluginLoadBalancer
          /\ result.ret = kReturnOk
          /\ \A i \in 1..Len(log) : log[i] # entry
       THEN Append(log, entry)
       ELSE log

\* The registry after the first n registrations of the constructor.
RECURSIVE Constructed(_)
Constructed(n) ==
    IF n = 0
    THEN [factory_map |-> EmptyMap, lb_map |-> EmptyMap, log |-> <<>>]
    ELSE LET before == Constructed(n - 1)
             p == DefaultPlugins[n]
             result == RegisterPluginResult(before.factory_map, before.lb_map,
                                            p[1], p[2], p[3])
         IN [factory_map |-> result.factory_map, lb_map |-> result.lb_map,
             log |-> LogRegistration(before.log, p[2], p[3], result)]

\* What callers pass to the registry.
RegistryNames == {"u1", "u2"}
RegistryTypes == {kPluginLoadBalancer, kPluginServiceRouter}
RegistryFactories ==
    {"UserLoadBalancerFactoryA", "UserLoadBalancerFactoryB",
     "UserRouterFactory"}
LoadBalanceTypes ==
    {"kLoadBalanceTypeWeightedRandom", "kLoadBalanceTypeUser",
     "kLoadBalanceTypeUnregistered"}

NoOperation ==
    [op |-> "none", name |-> "", type |-> "", factory |-> NoFactory,
     lb_type |-> "", ret |-> NoReturn, plugin |-> NoPlugin,
     factory_calls |-> <<>>, overtaken |-> FALSE]

Snapshot == [factory_map |-> plugin_factory_map_, lb_map |-> lb_plugin_factor_map_]

\* The threads that call the registry, and those of them that call GetPlugin
\* and GetLoadBalancePlugin.
RegistryThreads == {"t1", "t2"}
GetThreads == {"t2"}

\* A thread outside GetPlugin and GetLoadBalancePlugin.
NoCall ==
    [op |-> "none", name |-> "", type |-> "", lb_type |-> "",
     plugin_factory |-> NoFactory, overtaken |-> FALSE]

\* PluginManager::PluginManager()
RegistryInit ==
    LET built == Constructed(Len(DefaultPlugins))
    IN /\ plugin_factory_map_ = built.factory_map
       /\ lb_plugin_factor_map_ = built.lb_map
       /\ lb_registrations = built.log
       /\ reg_pre = [factory_map |-> built.factory_map, lb_map |-> built.lb_map]
       /\ reg_last = NoOperation
       /\ rcall = [t \in RegistryThreads |-> NoCall]

\* PluginManager::RegisterPlugin(name, plugin_type, plugin_factory), the
\* whole call under MutexGuard(lock_), by a thread that is in no other call.
RegisterPlugin ==
    /\ \E t \in RegistryThreads : rcall[t] = NoCall
    /\ \E name \in RegistryNames, plugin_type \in RegistryTypes,
          plugin_factory \in RegistryFactories :
           LET result == RegisterPluginResult(plugin_factory_map_,
                                              lb_plugin_factor_map_, name,
                                              plugin_type, plugin_factory)
           IN /\ plugin_factory_map_' = result.factory_map
              /\ lb_plugin_factor_map_' = result.lb_map
              /\ lb_registrations' =
                     LogRegistration(lb_registrations, plugin_type,
                                     plugin_factory, result)
              /\ reg_pre' = Snapshot
              /\ reg_last' =
                     [op |-> "Register", name |-> name, type |-> plugin_type,
                      factory |-> plugin_factory, lb_type |-> "",
                      ret |-> result.ret, plugin |-> NoPlugin,
                      factory_calls |-> result.factory_calls,
                      overtaken |-> FALSE]
              /\ rcall' = [t \in RegistryThreads |->
                              IF rcall[t] = NoCall
                              THEN NoCall
                              ELSE [rcall[t] EXCEPT !.overtaken = TRUE]]
              /\ UNCHANGED not_registry_vars

\* PluginManager::GetPlugin(name, plugin_type, plugin) up to and including
\* lock_.Unlock(): the call returns kReturnPluginError from there when the
\* key is missing, and otherwise holds the copied factory, the lock free.
GetPlugin ==
    \E t \in GetThreads :
        /\ rcall[t] = NoCall
        /\ \E name \in RegistryNames, plugin_type \in RegistryTypes :
               LET result == GetPluginResult(plugin_factory_map_, name,
                                             plugin_type)
               IN /\ plugin_factory_map_' = result.factory_map
                  /\ IF result.ret = kReturnPluginError
                     THEN /\ reg_pre' = Snapshot
                          /\ reg_last' =
                                 [op |-> "Get", name |-> name,
                                  type |-> plugin_type, factory |-> NoFactory,
                                  lb_type |-> "", ret |-> result.ret,
                                  plugin |-> NoPlugin, factory_calls |-> <<>>,
                                  overtaken |-> FALSE]
                          /\ UNCHANGED rcall
                     ELSE /\ rcall' =
                                 [rcall EXCEPT ![t] =
                                     [op |-> "Get", name |-> name,
                                      type |-> plugin_type, lb_type |-> "",
                                      plugin_factory |-> result.plugin_factory,
                                      overtaken |-> FALSE]]
                          /\ UNCHANGED <<reg_pre, reg_last>>
                  /\ UNCHANGED <<lb_plugin_factor_map_, lb_registrations>>
                  /\ UNCHANGED not_registry_vars

\* plugin = plugin_factory(); return kReturnOk; of GetPlugin, lock_ not held.
GetPluginProduce ==
    \E t \in RegistryThreads :
        /\ rcall[t].op = "Get"
        /\ reg_pre' = Snapshot
        /\ reg_last' =
               [op |-> "Get", name |-> rcall[t].name, type |-> rcall[t].type,
                factory |-> NoFactory, lb_type |-> "", ret |-> kReturnOk,
                plugin |-> Produce(rcall[t].plugin_factory),
                factory_calls |-> <<rcall[t].plugin_factory>>,
                overtaken |-> rcall[t].overtaken]
        /\ rcall' = [rcall EXCEPT ![t] = NoCall]
        /\ UNCHANGED <<plugin_factory_map_, lb_plugin_factor_map_,
                       lb_registrations>>
        /\ UNCHANGED not_registry_vars

\* PluginManager::GetLoadBalancePlugin(load_balace_type, plugin) up to and
\* including lock_.Unlock().
GetLoadBalancePlugin ==
    \E t \in GetThreads :
        /\ rcall[t] = NoCall
        /\ \E load_balace_type \in LoadBalanceTypes :
               LET result == GetLoadBalancePluginResult(lb_plugin_factor_map_,
                                                        load_balace_type)
               IN /\ IF result.ret = kReturnPluginError
                     THEN /\ reg_pre' = Snapshot
                          /\ reg_last' =
                                 [op |-> "GetLoadBalancer", name |-> "",
                                  type |-> "", factory |-> NoFactory,
                                  lb_type |-> load_balace_type,
                                  ret |-> result.ret, plugin |-> NoPlugin,
                                  factory_calls |-> <<>>,
                                  overtaken |-> FALSE]
                          /\ UNCHANGED rcall
                     ELSE /\ rcall' =
                                 [rcall EXCEPT ![t] =
                                     [op |-> "GetLoadBalancer", name |-> "",
                                      type |-> "",
                                      lb_type |-> load_balace_type,
                                      plugin_factory |-> result.plugin_factory,
                                      overtaken |-> FALSE]]
                          /\ UNCHANGED <<reg_pre, reg_last>>
                  /\ UNCHANGED <<plugin_factory_map_, lb_plugin_factor_map_,
                                 lb_registrations>>
                  /\ UNCHANGED not_registry_vars

\* plugin = plugin_factory(); return kReturnOk; of GetLoadBalancePlugin.
GetLoadBalancePluginProduce ==
    \E t \in RegistryThreads :
        /\ rcall[t].op = "GetLoadBalancer"
        /\ reg_pre' = Snapshot
        /\ reg_last' =
               [op |-> "GetLoadBalancer", name |-> "", type |-> "",
                factory |-> NoFactory, lb_type |-> rcall[t].lb_type,
                ret |-> kReturnOk,
                plugin |-> Produce(rcall[t].plugin_factory),
                factory_calls |-> <<rcall[t].plugin_factory>>,
                overtaken |-> rcall[t].overtaken]
        /\ rcall' = [rcall EXCEPT ![t] = NoCall]
        /\ UNCHANGED <<plugin_factory_map_, lb_plugin_factor_map_,
                       lb_registrations>>
        /\ UNCHANGED not_registry_vars

\* ------------------------------------------------ pre-update handler chain
\* PluginManager::RegisterInstancePreUpdateHandler,
\* DeregisterInstancePreUpdateHandler and OnPreUpdateServiceData, called by
\* several threads. A handler runs on the thread that called
\* OnPreUpdateServiceData and may itself register or deregister handlers.
Threads == {"t1", "t2"}
NoThread == "NoThread"
\* The threads that deliver service data updates.
UpdateThreads == {"t1"}
Handlers == {"h1", "h2"}
NoHandler == "NoHandler"

\* ServiceData* arguments of OnPreUpdateServiceData, and the instance
\* collection a handler is given for one.
ServiceDatas == {"NULL", "ServiceData"}
InstancesOf(data) == IF data = "NULL" THEN "NULL" ELSE "instances"

\* The scan of lines 213-217 never finding the handler.
HasHandler_Never(chain, handler) == FALSE

\* Lines 213-217 and 229-234: the scan for the handler.
HasHandler(chain, handler) == \E i \in 1..Len(chain) : chain[i] = handler

\* bFront ignored: every handler is appended.
InsertHandler_AlwaysBack(chain, handler, bFront) == Append(chain, handler)

\* Lines 218-222.
InsertHandler(chain, handler, bFront) ==
    IF bFront THEN <<handler>> \o chain ELSE Append(chain, handler)

\* Line 231: erase at the first position holding the handler.
EraseHandler(chain, handler) ==
    LET i == CHOOSE k \in 1..Len(chain) :
                 /\ chain[k] = handler
                 /\ \A j \in 1..(k - 1) : chain[j] # handler
    IN SubSeq(chain, 1, i - 1) \o SubSeq(chain, i + 1, Len(chain))

\* Lines 210-225, under the guard: the code returned and the chain left.
RegisterHandlerResult(chain, handler, bFront) ==
    IF HasHandler(chain, handler)
    THEN [ret |-> kReturnExistedResource, chain |-> chain]
    ELSE [ret |-> kReturnOk, chain |-> InsertHandler(chain, handler, bFront)]

\* Lines 227-237, under the guard.
DeregisterHandlerResult(chain, handler) ==
    IF HasHandler(chain, handler)
    THEN [ret |-> kReturnOk, chain |-> EraseHandler(chain, handler)]
    ELSE [ret |-> kReturnPluginError, chain |-> chain]

\* Line 246 forgotten: the handlers run with the mutex held.
LockAfterCopy_StillHeld(t) == t

\* Line 246: Unlock before the handlers run.
LockAfterCopy(t) == NoThread

NoArg == [handler |-> NoHandler, bFront |-> FALSE, nested |-> FALSE]
NoRound ==
    [oldData |-> "NULL", newData |-> "NULL", observed |-> <<>>,
     round_chain |-> <<>>, reentered |-> FALSE]
NoResult == [ret |-> NoReturn, pre |-> <<>>]

HandlerInit ==
    /\ instancePreUpdateHandlers_ = <<>>
    /\ instancePreUpdatelock_ = NoThread
    /\ hpc = [t \in Threads |-> "idle"]
    /\ harg = [t \in Threads |-> NoArg]
    /\ hres = [t \in Threads |-> NoResult]
    /\ hround = [t \in Threads |-> NoRound]
    /\ handlers = [t \in Threads |-> <<>>]
    /\ hidx = [t \in Threads |-> 1]
    /\ hinvoked = [t \in Threads |-> <<>>]

\* A thread calls RegisterInstancePreUpdateHandler(handler, bFront), from
\* outside or from inside a handler it is running: line 212, the MutexGuard
\* is about to be taken.
RegisterInstancePreUpdateHandler ==
    \E t \in Threads :
        /\ hpc[t] \in {"idle", "in_handler"}
        /\ \E handler \in Handlers, bFront \in BOOLEAN :
               harg' = [harg EXCEPT ![t] =
                           [handler |-> handler, bFront |-> bFront,
                            nested |-> hpc[t] = "in_handler"]]
        /\ hpc' = [hpc EXCEPT ![t] = "reg_wait"]
        /\ UNCHANGED <<instancePreUpdateHandlers_, instancePreUpdatelock_,
                       hres, hround, handlers, hidx, hinvoked>>
        /\ UNCHANGED not_handler_vars

\* Line 228.
DeregisterInstancePreUpdateHandler ==
    \E t \in Threads :
        /\ hpc[t] \in {"idle", "in_handler"}
        /\ \E handler \in Handlers :
               harg' = [harg EXCEPT ![t] =
                           [handler |-> handler, bFront |-> FALSE,
                            nested |-> hpc[t] = "in_handler"]]
        /\ hpc' = [hpc EXCEPT ![t] = "dereg_wait"]
        /\ UNCHANGED <<instancePreUpdateHandlers_, instancePreUpdatelock_,
                       hres, hround, handlers, hidx, hinvoked>>
        /\ UNCHANGED not_handler_vars

\* The MutexGuard constructor of lines 212 and 228: blocks until the mutex
\* is free (a non-recursive mutex: also when the caller itself holds it).
MutexGuardLock ==
    \E t \in Threads :
        /\ hpc[t] \in {"reg_wait", "dereg_wait"}
        /\ instancePreUpdatelock_ = NoThread
        /\ instancePreUpdatelock_' = t
        /\ hpc' = [hpc EXCEPT ![t] =
                      IF hpc[t] = "reg_wait" THEN "reg_cs" ELSE "dereg_cs"]
        /\ UNCHANGED <<instancePreUpdateHandlers_, harg, hres, hround,
                       handlers, hidx, hinvoked>>
        /\ UNCHANGED not_handler_vars

\* Lines 213-224, with the mutex held: the scan, the insertion, the return
\* value.
RegisterHandlerBody ==
    \E t \in Threads :
        /\ hpc[t] = "reg_cs"
        /\ LET r == RegisterHandlerResult(instancePreUpdateHandlers_,
                                          harg[t].handler, harg[t].bFront)
           IN /\ instancePreUpdateHandlers_' = r.chain
              /\ hres' = [hres EXCEPT ![t] =
                             [ret |-> r.ret,
                              pre |-> instancePreUpdateHandlers_]]
        /\ hpc' = [hpc EXCEPT ![t] = "reg_ret"]
        /\ UNCHANGED <<instancePreUpdatelock_, harg, hround, handlers, hidx,
                       hinvoked>>
        /\ UNCHANGED not_handler_vars

\* Lines 229-236, with the mutex held.
DeregisterHandlerBody ==
    \E t \in Threads :
        /\ hpc[t] = "dereg_cs"
        /\ LET r == DeregisterHandlerResult(instancePreUpdateHandlers_,
                                            harg[t].handler)
           IN /\ instancePreUpdateHandlers_' = r.chain
              /\ hres' = [hres EXCEPT ![t] =
                             [ret |-> r.ret,
                              pre |-> instancePreUpdateHandlers_]]
        /\ hpc' = [hpc EXCEPT ![t] = "dereg_ret"]
        /\ UNCHANGED <<instancePreUpdatelock_, harg, hround, handlers, hidx,
                       hinvoked>>
        /\ UNCHANGED not_handler_vars

\* The MutexGuard destructor at the return of lines 216, 224, 232 and 236:
\* the mutex is released and the call returns, to the handler that made it
\* or to the thread's caller.
MutexGuardUnlock ==
    \E t \in Threads :
        /\ hpc[t] \in {"reg_ret", "dereg_ret"}
        /\ instancePreUpdatelock_' = NoThread
        /\ hpc' = [hpc EXCEPT ![t] =
                      IF harg[t].nested THEN "in_handler" ELSE "idle"]
        /\ hround' = [hround EXCEPT ![t].reentered = @ \/ harg[t].nested]
        /\ harg' = [harg EXCEPT ![t] = NoArg]
        /\ hres' = [hres EXCEPT ![t] = NoResult]
        /\ UNCHANGED <<instancePreUpdateHandlers_, handlers, hidx, hinvoked>>
        /\ UNCHANGED not_handler_vars

\* A thread calls OnPreUpdateServiceData(oldData, newData): line 239.
OnPreUpdateServiceData ==
    \E t \in UpdateThreads :
        /\ hpc[t] = "idle"
        /\ \E oldData \in ServiceDatas, newData \in ServiceDatas :
               hround' = [hround EXCEPT ![t] =
                             [NoRound EXCEPT !.oldData = oldData,
                                             !.newData = newData]]
        /\ hpc' = [hpc EXCEPT ![t] = "size_test"]
        /\ UNCHANGED <<instancePreUpdateHandlers_, instancePreUpdatelock_,
                       harg, hres, handlers, hidx, hinvoked>>
        /\ UNCHANGED not_handler_vars

\* A thread inside the critical section of Register/Deregister whose body
\* will write the vector.
Writing(u) ==
    \/ /\ hpc[u] = "reg_cs"
       /\ ~HasHandler(instancePreUpdateHandlers_, harg[u].handler)
    \/ /\ hpc[u] = "dereg_cs"
       /\ HasHandler(instancePreUpdateHandlers_, harg[u].handler)

\* The vector as the write of thread u leaves it.
Written(u) ==
    IF hpc[u] = "reg_cs"
    THEN RegisterHandlerResult(instancePreUpdateHandlers_, harg[u].handler,
                               harg[u].bFront).chain
    ELSE DeregisterHandlerResult(instancePreUpdateHandlers_,
                                 harg[u].handler).chain

\* Line 240 reads size() without the mutex. With no concurrent writer it
\* sees the vector; racing with a writer it sees the vector's size either
\* before or after that write.
Observable(t) ==
    {instancePreUpdateHandlers_}
        \cup {Written(u) : u \in {w \in Threads \ {t} : Writing(w)}}

\* Lines 240-242: the test; when it holds the call is about to return.
SizeTest ==
    \E t \in Threads :
        /\ hpc[t] = "size_test"
        /\ IF hround[t].newData = "NULL" \/ hround[t].oldData = "NULL"
           THEN /\ hpc' = [hpc EXCEPT ![t] = "early_return"]
                /\ UNCHANGED hround
           ELSE \E seen \in Observable(t) :
                    IF Len(seen) = 0
                    THEN /\ hpc' = [hpc EXCEPT ![t] = "early_return"]
                         /\ hround' = [hround EXCEPT ![t].observed = seen]
                    ELSE /\ hpc' = [hpc EXCEPT ![t] = "copy_wait"]
                         /\ UNCHANGED hround
        /\ UNCHANGED <<instancePreUpdateHandlers_, instancePreUpdatelock_,
                       harg, hres, handlers, hidx, hinvoked>>
        /\ UNCHANGED not_handler_vars

\* Lines 243-246: Lock, copy the vector into the local handlers, Unlock.
CopyHandlers ==
    \E t \in Threads :
        /\ hpc[t] = "copy_wait"
        /\ instancePreUpdatelock_ = NoThread
        /\ handlers' = [handlers EXCEPT ![t] = instancePreUpdateHandlers_]
        /\ hround' = [hround EXCEPT ![t].round_chain =
                                        instancePreUpdateHandlers_]
        /\ instancePreUpdatelock_' = LockAfterCopy(t)
        /\ hidx' = [hidx EXCEPT ![t] = 1]
        /\ hpc' = [hpc EXCEPT ![t] = "loop"]
        /\ UNCHANGED <<instancePreUpdateHandlers_, harg, hres, hinvoked>>
        /\ UNCHANGED not_handler_vars

\* Lines 248-250: the loop calls the handler at its position.
CallHandler ==
    \E t \in Threads :
        /\ hpc[t] = "loop"
        /\ hidx[t] <= Len(handlers[t])
        /\ hinvoked' = [hinvoked EXCEPT ![t] =
                           Append(@, [handler |-> handlers[t][hidx[t]],
                                      old |-> InstancesOf(hround[t].oldData),
                                      new |-> InstancesOf(hround[t].newData)])]
        /\ hpc' = [hpc EXCEPT ![t] = "in_handler"]
        /\ UNCHANGED <<instancePreUpdateHandlers_, instancePreUpdatelock_,
                       harg, hres, hround, handlers, hidx>>
        /\ UNCHANGED not_handler_vars

\* The handler returns; ++it of line 248.
HandlerReturn ==
    \E t \in Threads :
        /\ hpc[t] = "in_handler"
        /\ hidx' = [hidx EXCEPT ![t] = @ + 1]
        /\ hpc' = [hpc EXCEPT ![t] = "loop"]
        /\ UNCHANGED <<instancePreUpdateHandlers_, instancePreUpdatelock_,
                       harg, hres, hround, handlers, hinvoked>>
        /\ UNCHANGED not_handler_vars

\* The loop of line 248 has reached handlers.end().
LoopDone(t) == hpc[t] = "loop" /\ hidx[t] > Len(handlers[t])

\* Lines 241 and 252: OnPreUpdateServiceData returns; its locals are gone.
RoundReturn ==
    \E t \in Threads :
        /\ hpc[t] = "early_return" \/ LoopDone(t)
        /\ hpc' = [hpc EXCEPT ![t] = "idle"]
        /\ hround' = [hround EXCEPT ![t] = NoRound]
        /\ handlers' = [handlers EXCEPT ![t] = <<>>]
        /\ hidx' = [hidx EXCEPT ![t] = 1]
        /\ hinvoked' = [hinvoked EXCEPT ![t] = <<>>]
        /\ UNCHANGED <<instancePreUpdateHandlers_, instancePreUpdatelock_,
                       harg, hres>>
        /\ UNCHANGED not_handler_vars

\* ------------------------------------------- outlier detection executor
\* OutlierDetectionExecutor on its reactor thread. The reactor, the Context's
\* service contexts and their reference counts are not part of the sources
\* at hand: they follow the specification's sections 4.2 and 4.4.
Services == {"s1", "s2"}
kDetectInterval == 1000
TickMs == 500
MaxRuns == 3
MaxSetups == 2

Max(a, b) == IF a > b THEN a ELSE b

\* DecrementRef skipped for a service whose detection failed.
ReleaseAfter_OnlyOnSuccess(ok) == ok

\* Line 39: DecrementRef follows DetectInstance whatever it returned.
ReleaseAfter(ok) == TRUE

\* The loop left at the first failed detection.
ContinueAfter_StopOnFailure(ok) == ok

\* Lines 35-40: the loop goes on whatever DetectInstance returned.
ContinueAfter(ok) == TRUE

\* The timer armed with no delay.
RearmDelay_Immediate(interval) == 0

\* Line 44: the delay of the TimingFuncTask.
RearmDelay(interval) == interval

\* Context::GetAllServiceContext: every service context, each with one more
\* reference.
GetAllServiceContext(contexts) ==
    LET RECURSIVE Listed(_)
        Listed(S) ==
            IF S = {} THEN <<>>
            ELSE LET s == CHOOSE x \in S : TRUE
                 IN <<s>> \o Listed(S \ {s})
    IN Listed(contexts)

ExecutorInit ==
    /\ service_contexts \in SUBSET Services
    /\ ref_count = [s \in Services |-> IF s \in service_contexts THEN 1 ELSE 0]
    /\ setups = 0
    /\ task_queue = <<>>
    /\ timing_tasks = <<>>
    /\ stop_requested = FALSE
    /\ reactor_stopped = FALSE
    /\ epc = "idle"
    /\ all_service_contexts = <<>>
    /\ ei = 1
    /\ run = [ref_before |-> ref_count, released |-> [s \in Services |-> 0],
              detected |-> <<>>, arm_calls |-> <<>>]
    /\ runs = 0
    /\ since_run = 0
    /\ last_gap = kDetectInterval

\* Reactor::SubmitTask / AddTimingTask: refused once the reactor is told to
\* stop.
Submitted(queue, task) == IF stop_requested THEN queue ELSE Append(queue, task)

\* Lines 28-30: every call submits one more task, whatever was submitted
\* before.
SetupWork ==
    /\ setups < MaxSetups
    /\ setups' = setups + 1
    /\ task_queue' = Submitted(task_queue, "TimingDetect")
    /\ UNCHANGED <<service_contexts, ref_count, timing_tasks, stop_requested,
                   reactor_stopped, epc, all_service_contexts, ei, run, runs,
                   since_run, last_gap>>
    /\ UNCHANGED not_executor_vars

\* The Context starts its executor: the executor's thread calls SetupWork,
\* once, before it runs the reactor loop (specification, sections 4.4 and 5).
ExecutorStart == setups = 0 /\ SetupWork

\* Lines 32-34: TimingDetect starts and takes the service contexts.
TimingDetectBegin ==
    /\ epc' = "detect"
    /\ all_service_contexts' = GetAllServiceContext(service_contexts)
    /\ ref_count' = [s \in Services |->
                        IF s \in service_contexts THEN ref_count[s] + 1
                        ELSE ref_count[s]]
    /\ ei' = 1
    /\ run' = [ref_before |-> ref_count,
               released |-> [s \in Services |-> 0],
               detected |-> <<>>, arm_calls |-> <<>>]
    /\ runs' = Min(MaxRuns, runs + 1)
    /\ last_gap' = IF runs > 0 THEN since_run ELSE kDetectInterval
    /\ since_run' = 0
    /\ UNCHANGED <<service_contexts, setups, stop_requested,
                   reactor_stopped>>
    /\ UNCHANGED not_executor_vars

\* The reactor loop takes the submitted task of line 29 and runs it.
RunSubmittedTask ==
    /\ epc = "idle"
    /\ ~reactor_stopped
    /\ ~stop_requested
    /\ task_queue # <<>>
    /\ task_queue' = Tail(task_queue)
    /\ UNCHANGED timing_tasks
    /\ TimingDetectBegin

\* The reactor loop runs a timing task whose delay has passed.
RunTimingTask ==
    /\ epc = "idle"
    /\ ~reactor_stopped
    /\ ~stop_requested
    /\ \E k \in 1..Len(timing_tasks) :
           /\ timing_tasks[k] = 0
           /\ timing_tasks' = SubSeq(timing_tasks, 1, k - 1)
                                  \o SubSeq(timing_tasks, k + 1, Len(timing_tasks))
    /\ UNCHANGED task_queue
    /\ TimingDetectBegin

\* Lines 35-40, one iteration: DetectInstance (its result is not looked at),
\* then DecrementRef.
DetectInstance ==
    /\ epc = "detect"
    /\ ei <= Len(all_service_contexts)
    /\ \E ok \in BOOLEAN :
           LET s == all_service_contexts[ei]
               release == ReleaseAfter(ok)
           IN /\ ref_count' = [ref_count EXCEPT ![s] =
                                  IF release THEN @ - 1 ELSE @]
              /\ run' = [run EXCEPT
                            !.detected = Append(@, [service |-> s, ok |-> ok]),
                            !.released[s] = IF release THEN @ + 1 ELSE @]
              /\ ei' = IF ContinueAfter(ok) THEN ei + 1
                       ELSE Len(all_service_contexts) + 1
    /\ UNCHANGED <<service_contexts, setups, task_queue, timing_tasks,
                   stop_requested, reactor_stopped, epc,
                   all_service_contexts, runs, since_run, last_gap>>
    /\ UNCHANGED not_executor_vars

\* Lines 41-45: clear, AddTimingTask(TimingDetect, 1000), return to the
\* reactor loop.
TimingDetectEnd ==
    /\ epc = "detect"
    /\ ei > Len(all_service_contexts)
    /\ all_service_contexts' = <<>>
    /\ ei' = 1
    /\ timing_tasks' = Submitted(timing_tasks, RearmDelay(kDetectInterval))
    /\ run' = [run EXCEPT !.arm_calls = Append(@, RearmDelay(kDetectInterval))]
    /\ epc' = "idle"
    /\ UNCHANGED <<service_contexts, ref_count, setups, task_queue,
                   stop_requested, reactor_stopped, runs, since_run, last_gap>>
    /\ UNCHANGED not_executor_vars

\* Time passes, also while a task runs.
Tick ==
    /\ timing_tasks' = [k \in 1..Len(timing_tasks) |->
                           Max(0, timing_tasks[k] - TickMs)]
    /\ since_run' = Min(kDetectInterval, since_run + TickMs)
    /\ UNCHANGED <<service_contexts, ref_count, setups, task_queue,
                   stop_requested, reactor_stopped, epc,
                   all_service_contexts, ei, run, runs, last_gap>>
    /\ UNCHANGED not_executor_vars

\* Another thread stops the reactor (the Context being destroyed).
ReactorStop ==
    /\ ~stop_requested
    /\ stop_requested' = TRUE
    /\ UNCHANGED <<service_contexts, ref_count, setups, task_queue,
                   timing_tasks, reactor_stopped, epc, all_service_contexts,
                   ei, run, runs, since_run, last_gap>>
    /\ UNCHANGED not_executor_vars

\* The reactor loop, between tasks, sees the stop: it drops what is pending
\* and ends.
ReactorShutdown ==
    /\ epc = "idle"
    /\ stop_requested
    /\ ~reactor_stopped
    /\ reactor_stopped' = TRUE
    /\ task_queue' = <<>>
    /\ timing_tasks' = <<>>
    /\ UNCHANGED <<service_contexts, ref_count, setups, stop_requested,
                   epc, all_service_contexts, ei, run, runs, since_run,
                   last_gap>>
    /\ UNCHANGED not_executor_vars

\* ------------------------------------------------- context ownership
\* ProviderApi handles and the Contexts they are created on.
ApiHandles == {"a1", "a2"}
\* destroy_count stops counting at MaxDestroys.
MaxDestroys == 2
\* The addresses the allocator gives to Contexts.
Contexts == {"c1", "c2", "c3"}
NoContext == "NULL"
kNotInitContext == "kNotInitContext"
kPrivateContext == "kPrivateContext"
kShareContext == "kShareContext"
kLimitContext == "kLimitContext"
ContextModes == {kNotInitContext, kPrivateContext, kShareContext, kLimitContext}

\* Lines 99-101: the test of ~ProviderApiImpl, mode being what
\* GetContextMode() returned.
DeletesContext(context, mode) ==
    context # NoContext /\ mode = kPrivateContext

\* Lines 46-54: the tests of ProviderApi::Create.
CreateAccepts(context, mode) ==
    /\ context # NoContext
    /\ ~(mode # kPrivateContext /\ mode # kShareContext /\ mode # kLimitContext)

NoDestruction ==
    [handle |-> "none", context |-> NoContext, mode |-> kNotInitContext,
     deleted |-> FALSE, referred |-> FALSE]

OwnerInit ==
    /\ context_mode = [c \in Contexts |-> kNotInitContext]
    /\ context_state = [c \in Contexts |-> "none"]
    /\ app_pointers = {}
    /\ destroy_count = [c \in Contexts |-> 0]
    /\ context_ = [h \in ApiHandles |-> NoContext]
    /\ handle_live = [h \in ApiHandles |-> FALSE]
    /\ olast = NoDestruction

\* new Context: the allocator's choice of an address, any that holds no live
\* Context, a freed one included.
Allocatable(c) == context_state[c] # "alive"

\* The application creates a Context of some mode (Context::Create) and
\* keeps the pointer.
ContextCreate ==
    \E c \in Contexts, mode \in ContextModes :
        /\ Allocatable(c)
        /\ context_state' = [context_state EXCEPT ![c] = "alive"]
        /\ context_mode' = [context_mode EXCEPT ![c] = mode]
        /\ destroy_count' = [destroy_count EXCEPT ![c] = 0]
        /\ app_pointers' = app_pointers \cup {c}
        /\ UNCHANGED <<context_, handle_live, olast>>
        /\ UNCHANGED not_owner_vars

\* What GetContextMode() returns through a pointer: the mode of the live
\* Context at that address (the one the pointer was made for, or one made
\* there since it was deleted), or, when the address is free, whatever the
\* freed memory holds.
ModeRead(c) ==
    IF context_state[c] = "alive" THEN {context_mode[c]} ELSE ContextModes

\* Lines 45-57: ProviderApi::Create(context) with NULL or a pointer the
\* application got from Context::Create, the Context alive or deleted since;
\* a rejected call returns NULL and makes no handle.
Create ==
    \E h \in ApiHandles, c \in app_pointers \cup {NoContext} :
        /\ ~handle_live[h]
        /\ \E mode \in (IF c = NoContext THEN {kNotInitContext}
                         ELSE ModeRead(c)) :
               IF CreateAccepts(c, mode)
               THEN /\ handle_live' = [handle_live EXCEPT ![h] = TRUE]
                    /\ context_' = [context_ EXCEPT ![h] = c]
               ELSE UNCHANGED <<handle_live, context_>>
        /\ UNCHANGED <<context_mode, context_state, app_pointers,
                       destroy_count, olast>>
        /\ UNCHANGED not_owner_vars

\* Lines 59-69: a Context of its own, in private mode, then Create; the
\* application gets no pointer to it.
CreateFromConfig ==
    \E h \in ApiHandles, c \in Contexts :
        /\ ~handle_live[h]
        /\ Allocatable(c)
        /\ context_state' = [context_state EXCEPT ![c] = "alive"]
        /\ context_mode' = [context_mode EXCEPT ![c] = kPrivateContext]
        /\ destroy_count' = [destroy_count EXCEPT ![c] = 0]
        /\ CreateAccepts(c, kPrivateContext)
        /\ handle_live' = [handle_live EXCEPT ![h] = TRUE]
        /\ context_' = [context_ EXCEPT ![h] = c]
        /\ UNCHANGED <<app_pointers, olast>>
        /\ UNCHANGED not_owner_vars

\* Lines 98-103: the handle is destroyed. delete context_ deletes the live
\* Context at that address, whichever handle or caller made it; on a free
\* address it is a second delete of the Context that was there.
DestroyProviderApi ==
    \E h \in ApiHandles :
        /\ handle_live[h]
        /\ \E mode \in ModeRead(context_[h]) :
               LET c == context_[h]
                   deleted == DeletesContext(c, mode)
               IN /\ context_state' =
                         IF deleted THEN [context_state EXCEPT ![c] = "deleted"]
                         ELSE context_state
                  /\ destroy_count' =
                         IF deleted
                         THEN [destroy_count EXCEPT
                                  ![c] = Min(MaxDestroys, @ + 1)]
                         ELSE destroy_count
                  /\ olast' = [handle |-> h, context |-> c,
                               mode |-> context_mode[c], deleted |-> deleted,
                               referred |->
                                   \E other \in ApiHandles \ {h} :
                                       /\ handle_live[other]
                                       /\ context_[other] = c]
        /\ handle_live' = [handle_live EXCEPT ![h] = FALSE]
        /\ context_' = [context_ EXCEPT ![h] = NoContext]
        /\ UNCHANGED <<context_mode, app_pointers>>
        /\ UNCHANGED not_owner_vars

\* One Context with no service context for the other subsystems.
ExecutorIdle == ExecutorInit /\ service_contexts = {}

Init ==
    ProviderInit /\ RegistryInit /\ HandlerInit /\ ExecutorIdle /\ OwnerInit

Next ==
    \/ Register
    \/ Deregister
    \/ Heartbeat
    \/ Attempt
    \/ ConnectorReturn
    \/ Wake
    \/ LoopExit
    \/ Return

Spec == Init /\ [][Next]_vars

\* The registry on its own: the provider side idle on one Context.
RegistrySpecInit ==
    /\ ProviderInitWith({MaxRetryTimes}, {MaxTimeout}, {MaxRetryInterval})
    /\ RegistryInit
    /\ HandlerInit
    /\ ExecutorIdle
    /\ OwnerInit

RegistryNext ==
    \/ RegisterPlugin
    \/ GetPlugin
    \/ GetPluginProduce
    \/ GetLoadBalancePlugin
    \/ GetLoadBalancePluginProduce

RegistrySpec == RegistrySpecInit /\ [][RegistryNext]_vars

\* The handler chain on its own, the other subsystems idle.
HandlerSpecInit ==
    /\ ProviderInitWith({MaxRetryTimes}, {MaxTimeout}, {MaxRetryInterval})
    /\ RegistryInit
    /\ HandlerInit
    /\ ExecutorIdle
    /\ OwnerInit

HandlerNext ==
    \/ RegisterInstancePreUpdateHandler
    \/ DeregisterInstancePreUpdateHandler
    \/ MutexGuardLock
    \/ RegisterHandlerBody
    \/ DeregisterHandlerBody
    \/ MutexGuardUnlock
    \/ OnPreUpdateServiceData
    \/ SizeTest
    \/ CopyHandlers
    \/ CallHandler
    \/ HandlerReturn
    \/ RoundReturn

HandlerSpec == HandlerSpecInit /\ [][HandlerNext]_vars

\* The executor on its own, the other subsystems idle.
ExecutorSpecInit ==
    /\ ProviderInitWith({MaxRetryTimes}, {MaxTimeout}, {MaxRetryInterval})
    /\ RegistryInit
    /\ HandlerInit
    /\ ExecutorInit
    /\ OwnerInit

ExecutorNext ==
    \/ SetupWork
    \/ RunSubmittedTask
    \/ RunTimingTask
    \/ DetectInstance
    \/ TimingDetectEnd
    \/ Tick
    \/ ReactorStop
    \/ ReactorShutdown

ExecutorSpec == ExecutorSpecInit /\ [][ExecutorNext]_vars

\* The executor as the Context runs it: started once, SetupWork called by
\* nobody else.
ExecutorOnceNext ==
    \/ ExecutorStart
    \/ RunSubmittedTask
    \/ RunTimingTask
    \/ DetectInstance
    \/ TimingDetectEnd
    \/ Tick
    \/ ReactorStop
    \/ ReactorShutdown

ExecutorOnceSpec == ExecutorSpecInit /\ [][ExecutorOnceNext]_vars

\* The reactor thread is a dedicated thread that keeps running its loop, the
\* executor is started (SetupWork is called, at least once), and time
\* passes; whether SetupWork is called again, and whether and when another
\* thread stops the reactor, is left open.
ExecutorFairSpec ==
    /\ ExecutorSpec
    /\ WF_vars(ExecutorStart)
    /\ WF_vars(RunSubmittedTask)
    /\ WF_vars(RunTimingTask)
    /\ WF_vars(DetectInstance)
    /\ WF_vars(TimingDetectEnd)
    /\ WF_vars(Tick)
    /\ WF_vars(ReactorShutdown)

\* Handles and Contexts on their own, the other subsystems idle.
OwnerSpecInit ==
    /\ ProviderInitWith({MaxRetryTimes}, {MaxTimeout}, {MaxRetryInterval})
    /\ RegistryInit
    /\ HandlerInit
    /\ ExecutorIdle
    /\ OwnerInit

OwnerNext ==
    \/ ContextCreate
    \/ Create
    \/ CreateFromConfig
    \/ DestroyProviderApi

OwnerSpec == OwnerSpecInit /\ [][OwnerNext]_vars

\* ------------------------------------------------ provider pipeline claims
RECURSIVE SumUseTime(_)
SumUseTime(calls) ==
    IF calls = <<>> THEN 0
    ELSE calls[Len(calls)].use_time + SumUseTime(SubSeq(calls, 1, Len(calls) - 1))

RECURSIVE SumSeq(_)
SumSeq(durations) ==
    IF durations = <<>> THEN 0
    ELSE durations[Len(durations)]
             + SumSeq(SubSeq(durations, 1, Len(durations) - 1))

Retryable == {kReturnNetworkFailed, kReturnServerError}

\* T0 of the call: request.timeout_ms if set, otherwise api_default_timeout.
EffectiveBudget ==
    IF req.has_timeout THEN req.timeout ELSE api_default_timeout

\* The backoffs of the call (what line 157 deducts), in order.
Backoffs == [j \in 1..Len(sleeps) |-> sleeps[j].backoff]

\* How long the sleeps of the call lasted, in ms rounded up.
SleptMs == [j \in 1..Len(sleeps) |->
               sleeps[j].ms + (IF sleeps[j].us > 0 THEN 1 ELSE 0)]

\* Sleep j lasted exactly d ms.
SleptExactly(j, d) == sleeps[j].ms = d /\ sleeps[j].us = 0

\* Budget left after attempt j of the call and the backoffs before it.
BudgetAfterAttempt(j) ==
    EffectiveBudget - SumUseTime(SubSeq(connector_calls, 1, j))
        - SumSeq(SubSeq(Backoffs, 1, j - 1))

\* C1: a provider call makes at most api_max_retry_times server-connector
\* invocations, whatever the connector answers.
C1_AttemptsBounded ==
    Len(connector_calls) + (IF pc = "in_call" THEN 1 ELSE 0)
        <= api_max_retry_times

C1_Witness ==
    /\ pc = "done"
    /\ api_max_retry_times >= 2
    /\ Len(connector_calls) = api_max_retry_times
    /\ returned \in Retryable

\* C2: once an attempt returns a code other than kReturnNetworkFailed and
\* kReturnServerError, it is the last attempt, no sleep follows it, and the
\* call returns that code; a first-attempt success is one invocation and no
\* sleep.
C2_TerminalCodeStops ==
    \A i \in 1..Len(connector_calls) :
        connector_calls[i].code \notin Retryable =>
            /\ Len(connector_calls) = i
            /\ Len(sleeps) = i - 1
            /\ pc = "done"
            /\ returned = connector_calls[i].code

C2_Witness ==
    /\ pc = "done"
    /\ Len(connector_calls) = 2
    /\ connector_calls[1].code = kReturnServerError
    /\ connector_calls[2].code = kReturnTimeout
    /\ Len(sleeps) = 1
    /\ returned = kReturnTimeout

\* C3: when every connector invocation returned within the timeout it was
\* given, the attempt durations plus the sleeps of the call sum to at most
\* the effective initial budget T0.
C3_TotalWithinBudget ==
    (pc # "idle"
     /\ \A i \in 1..Len(connector_calls) :
            connector_calls[i].use_time <= connector_calls[i].timeout)
        => SumUseTime(connector_calls) + SumSeq(SleptMs) <= EffectiveBudget

C3_Witness ==
    /\ pc = "done"
    /\ Len(connector_calls) = 2
    /\ Len(sleeps) = 1
    /\ sleeps[1].ms > 0
    /\ connector_calls[1].use_time > 0
    /\ \A i \in 1..2 : connector_calls[i].use_time <= connector_calls[i].timeout
    /\ SumUseTime(connector_calls) + SumSeq(SleptMs) = EffectiveBudget

\* C4: the validation gate. A request failing the checks returns
\* kReturnInvalidArgument with no connector invocation and one stat record;
\* a Deregister/Heartbeat request with a non-empty instance id and a
\* non-empty token passes, whatever its namespace, name, host and port.
C4_RegisterStyleBad(r) ==
    \/ r.service_namespace = ""
    \/ r.service_name = ""
    \/ r.service_token = ""
    \/ r.host = ""
    \/ r.port < 1
    \/ r.port > 65535

C4_Rejected(a, r) ==
    \/ a = "Register" /\ C4_RegisterStyleBad(r)
    \/ /\ a \in {"Deregister", "Heartbeat"}
       /\ \/ r.has_instance_id /\ (r.instance_id = "" \/ r.service_token = "")
          \/ ~r.has_instance_id /\ C4_RegisterStyleBad(r)

C4_ValidationGate ==
    pc # "idle" =>
        /\ C4_Rejected(api, req) =>
               /\ ~valid
               /\ pc = "done"
               /\ returned = kReturnInvalidArgument
               /\ connector_calls = <<>>
               /\ Len(stat_records) = 1
        /\ (/\ api \in {"Deregister", "Heartbeat"}
            /\ req.has_instance_id
            /\ req.instance_id # ""
            /\ req.service_token # "") => valid
        /\ (api = "Register" /\ ~C4_RegisterStyleBad(req)) => valid

C4_Witness ==
    /\ pc = "done"
    /\ api = "Register"
    /\ req.service_namespace # "" /\ req.service_name # ""
    /\ req.service_token # "" /\ req.host # ""
    /\ req.port = 65536
    /\ returned = kReturnInvalidArgument
    /\ connector_calls = <<>>
    /\ Len(stat_records) = 1

\* C5: every provider call records one return code, on every path, and it
\* is the code returned to the caller.
C5_RecordedOnce ==
    /\ pc = "done" =>
           /\ returned # NoReturn
           /\ stat_records = <<returned>>
    /\ pc # "done" =>
           /\ returned = NoReturn
           /\ stat_records = <<>>

C5_Witness ==
    /\ pc = "done"
    /\ valid
    /\ timeout_ms = 0
    /\ retry_times >= 0
    /\ Len(connector_calls) >= 1
    /\ Len(sleeps) = Len(connector_calls)
    /\ returned \in Retryable
    /\ stat_records = <<returned>>

\* C6: transient failures are absorbed. While fewer than
\* api_max_retry_times attempts have failed with a retryable code and the
\* budget left after them and their backoffs is positive, the next attempt
\* is made; and a call whose k failures are followed by kReturnOk returns
\* kReturnOk after k+1 invocations and k sleeps of min(remaining budget,
\* api_retry_interval) each.
C6_TransientAbsorbed ==
    /\ (/\ pc = "retry"
        /\ Len(connector_calls) < api_max_retry_times
        /\ \A i \in 1..Len(connector_calls) :
               connector_calls[i].code \in Retryable
        /\ EffectiveBudget - SumUseTime(connector_calls) - SumSeq(Backoffs) > 0)
           => (retry_times > 0 /\ timeout_ms > 0 /\ ENABLED Attempt)
    /\ (/\ pc = "done"
        /\ connector_calls # <<>>
        /\ connector_calls[Len(connector_calls)].code = kReturnOk
        /\ \A i \in 1..(Len(connector_calls) - 1) :
               connector_calls[i].code \in Retryable)
           => /\ returned = kReturnOk
              /\ Len(sleeps) = Len(connector_calls) - 1
              /\ \A j \in 1..Len(sleeps) :
                     SleptExactly(j, Min(BudgetAfterAttempt(j),
                                         api_retry_interval))

\* C7: with api_max_retry_times = 0 a well-formed request reaches no
\* connector and the call returns the pre-initialised kReturnInvalidArgument.
C7_ZeroRetryTimes ==
    (api_max_retry_times = 0 /\ pc # "idle" /\ valid) =>
        /\ connector_calls = <<>>
        /\ pc = "done" => returned = kReturnInvalidArgument

C7_Witness ==
    /\ api_max_retry_times = 0
    /\ pc = "done"
    /\ valid
    /\ EffectiveBudget > 0
    /\ connector_calls = <<>>
    /\ returned = kReturnInvalidArgument

\* C15: budget accounting. The remaining budget starts at T0, never grows
\* and never goes below 0; every connector invocation is given the current
\* remaining budget, which is positive; every backoff sleep lasts exactly
\* min(budget left after the attempt, api_retry_interval), so never more
\* than what is left.
C15_BudgetAccounting ==
    (pc # "idle" /\ valid) =>
        /\ 0 <= timeout_ms
        /\ timeout_ms <= EffectiveBudget
        /\ Len(sleeps) <= Len(connector_calls)
        /\ timeout_ms - (IF pc = "sleeping" THEN backoff ELSE 0) =
               EffectiveBudget - SumSeq(Backoffs)
                   - SumUseTime(SubSeq(connector_calls, 1, Len(sleeps)))
        /\ \A i \in 1..Len(connector_calls) :
               /\ connector_calls[i].timeout > 0
               /\ connector_calls[i].timeout =
                      EffectiveBudget
                          - SumUseTime(SubSeq(connector_calls, 1, i - 1))
                          - SumSeq(SubSeq(Backoffs, 1, i - 1))
               /\ i > 1 =>
                      connector_calls[i].timeout <= connector_calls[i - 1].timeout
        /\ \A j \in 1..Len(sleeps) :
               LET left == connector_calls[j].timeout
                               - connector_calls[j].use_time
               IN /\ left >= 0
                  /\ sleeps[j].backoff = Min(left, api_retry_interval)
                  /\ SleptExactly(j, Min(left, api_retry_interval))
                  /\ SleptMs[j] <= left

\* C21: a call whose request passed validation, made with
\* api_max_retry_times >= 1, invokes the server connector at least once
\* whatever the request's timeout is, so it returns kReturnInvalidArgument
\* only when the connector returned that code.
C21_ValidRequestReachesConnector ==
    (pc = "done" /\ valid /\ api_max_retry_times >= 1) =>
        /\ Len(connector_calls) >= 1
        /\ returned = kReturnInvalidArgument =>
               \E i \in 1..Len(connector_calls) :
                   connector_calls[i].code = kReturnInvalidArgument

\* The usleep calls of the call that lasted longer than no time.
RealSleeps ==
    LET Positive(d) == d.ms > 0 \/ d.us > 0 IN SelectSeq(sleeps, Positive)

\* C22: a call never sleeps after its last connector attempt: every backoff
\* sleep is followed by another connector invocation of the same call, so
\* there are at most (attempts - 1) sleeps.
C22_NoSleepAfterLastAttempt ==
    (pc = "done" /\ valid /\ Len(connector_calls) >= 1) =>
        /\ Len(RealSleeps) <= Len(connector_calls) - 1
        /\ ~(/\ Len(sleeps) = Len(connector_calls)
             /\ SleptMs[Len(sleeps)] > 0)

\* ----------------------------------------------------- plugin registry claims
\* The key the last registry operation addressed.
LastKey == NameWithType(reg_last.name, reg_last.type)

\* C8: Register is idempotent and conflict-safe. Registering (name, type)
\* with the factory it already maps to returns kReturnOk and leaves the name
\* index as it was; registering it with another factory returns
\* kReturnPluginError and leaves both indexes as they were.
C8_RegisterIdempotent ==
    (reg_last.op = "Register" /\ LastKey \in DOMAIN reg_pre.factory_map) =>
        IF reg_pre.factory_map[LastKey] = reg_last.factory
        THEN /\ reg_last.ret = kReturnOk
             /\ plugin_factory_map_ = reg_pre.factory_map
        ELSE /\ reg_last.ret = kReturnPluginError
             /\ plugin_factory_map_ = reg_pre.factory_map
             /\ lb_plugin_factor_map_ = reg_pre.lb_map

\* Whether a load-balancer registration reporting the type returned kReturnOk.
HasRegistrant(load_balancer_type) ==
    \E i \in 1..Len(lb_registrations) :
        lb_registrations[i].type = load_balancer_type

\* The factory of the first such registration.
FirstRegistrant(load_balancer_type) ==
    LET first == CHOOSE i \in 1..Len(lb_registrations) :
                     /\ lb_registrations[i].type = load_balancer_type
                     /\ \A j \in 1..(i - 1) :
                            lb_registrations[j].type # load_balancer_type
    IN lb_registrations[first].factory

\* C9: for every LoadBalanceType, GetLoadBalancer(type) produces an instance
\* from the factory of the first successful load-balancer registration that
\* reported the type; later registrations reporting it return kReturnOk and
\* leave the type index as it was.
C9_FirstLoadBalancerWins ==
    /\ \A i \in 1..Len(lb_registrations) :
           LET t == lb_registrations[i].type
           IN /\ t \in DOMAIN lb_plugin_factor_map_
              /\ lb_plugin_factor_map_[t] = FirstRegistrant(t)
    /\ \A t \in DOMAIN lb_plugin_factor_map_ : HasRegistrant(t)
    /\ \A t \in RegistryThreads :
           rcall[t].op = "GetLoadBalancer" =>
               /\ HasRegistrant(rcall[t].lb_type)
               /\ rcall[t].plugin_factory = FirstRegistrant(rcall[t].lb_type)
    /\ (reg_last.op = "GetLoadBalancer" /\ HasRegistrant(reg_last.lb_type)) =>
           /\ reg_last.ret = kReturnOk
           /\ reg_last.plugin = Produce(FirstRegistrant(reg_last.lb_type))
           /\ reg_last.factory_calls = <<FirstRegistrant(reg_last.lb_type)>>
    /\ (/\ reg_last.op = "Register"
        /\ reg_last.factory_calls # <<>>
        /\ IsLoadBalancer(Produce(reg_last.factory))
        /\ GetLoadBalanceType(Produce(reg_last.factory))
               \in DOMAIN reg_pre.lb_map) =>
           /\ reg_last.ret = kReturnOk
           /\ lb_plugin_factor_map_ = reg_pre.lb_map

C9_Witness ==
    /\ reg_last.op = "GetLoadBalancer"
    /\ reg_last.lb_type = "kLoadBalanceTypeUser"
    /\ reg_last.ret = kReturnOk
    /\ reg_last.plugin = "UserLoadBalancerB"
    /\ reg_last.overtaken
    /\ Len(lb_registrations) >= 2
    /\ \E i \in 1..Len(lb_registrations) :
           lb_registrations[i].factory = "UserLoadBalancerFactoryA"

\* C10: Get(name, type) returns kReturnOk with an instance made by one call
\* of the factory stored for (name, type), or kReturnPluginError with no
\* factory call when there is no entry; the indexes stay as they were. The
\* factory a call holds after its Unlock is the one stored for its key,
\* whatever other threads register before it is called.
C10_GetPlugin ==
    /\ \A t \in RegistryThreads :
           rcall[t].op = "Get" =>
               LET key == NameWithType(rcall[t].name, rcall[t].type)
               IN /\ key \in DOMAIN plugin_factory_map_
                  /\ rcall[t].plugin_factory = plugin_factory_map_[key]
    /\ reg_last.op = "Get" =>
           /\ plugin_factory_map_ = reg_pre.factory_map
           /\ lb_plugin_factor_map_ = reg_pre.lb_map
           /\ IF LastKey \in DOMAIN reg_pre.factory_map
              THEN /\ reg_last.ret = kReturnOk
                   /\ reg_last.plugin = Produce(reg_pre.factory_map[LastKey])
                   /\ reg_last.factory_calls = <<reg_pre.factory_map[LastKey]>>
              ELSE /\ reg_last.ret = kReturnPluginError
                   /\ reg_last.plugin = NoPlugin
                   /\ reg_last.factory_calls = <<>>

C10_Witness ==
    /\ reg_last.op = "Get"
    /\ reg_last.name = "u1"
    /\ reg_last.type = kPluginLoadBalancer
    /\ reg_last.ret = kReturnOk
    /\ reg_last.plugin = "UserLoadBalancerA"
    /\ reg_last.factory_calls = <<"UserLoadBalancerFactoryA">>
    /\ reg_last.overtaken

\* The out-parameter of a Get whose look-up gave result, no other thread
\* registering before its factory call.
PluginOf(result) ==
    IF result.ret = kReturnOk THEN Produce(result.plugin_factory) ELSE NoPlugin

\* C20: a Register call that returns kReturnPluginError leaves the registry
\* as it was, the failed load-balancer probe included: Get(name, type) and
\* GetLoadBalancer(type) answer afterwards as they did before the call.
C20_FailedRegisterLeavesRegistry ==
    (reg_last.op = "Register" /\ reg_last.ret = kReturnPluginError) =>
        /\ \A name \in RegistryNames, plugin_type \in RegistryTypes :
               LET before == GetPluginResult(reg_pre.factory_map, name, plugin_type)
                   after == GetPluginResult(plugin_factory_map_, name, plugin_type)
               IN before.ret = after.ret /\ PluginOf(before) = PluginOf(after)
        /\ \A t \in LoadBalanceTypes :
               LET before == GetLoadBalancePluginResult(reg_pre.lb_map, t)
                   after == GetLoadBalancePluginResult(lb_plugin_factor_map_, t)
               IN before.ret = after.ret /\ PluginOf(before) = PluginOf(after)

\* ------------------------------------------------ handler chain claims
NoDuplicate(chain) ==
    \A i, j \in 1..Len(chain) : chain[i] = chain[j] => i = j

InChain(chain, handler) == handler \in {chain[i] : i \in 1..Len(chain)}

Without(chain, handler) ==
    LET Other(x) == x # handler IN SelectSeq(chain, Other)

\* The handlers of the invocations of a round, in order.
InvokedHandlers(t) == [i \in 1..Len(hinvoked[t]) |-> hinvoked[t][i].handler]

IsPrefix(s, whole) == Len(s) <= Len(whole) /\ s = SubSeq(whole, 1, Len(s))

\* C11: Register(h) returns kReturnExistedResource and leaves the chain as
\* it was when h is in the chain, otherwise inserts h and returns kReturnOk;
\* Deregister(h) returns kReturnPluginError and leaves the chain as it was
\* when h is absent, otherwise removes h and returns kReturnOk; the chain
\* never holds a handler twice.
C11_HandlerChainManagement ==
    /\ NoDuplicate(instancePreUpdateHandlers_)
    /\ \A t \in Threads :
           LET h == harg[t].handler
               pre == hres[t].pre
               post == instancePreUpdateHandlers_
           IN /\ hpc[t] = "reg_ret" =>
                     IF InChain(pre, h)
                     THEN hres[t].ret = kReturnExistedResource /\ post = pre
                     ELSE /\ hres[t].ret = kReturnOk
                          /\ InChain(post, h)
                          /\ Len(post) = Len(pre) + 1
                          /\ Without(post, h) = pre
              /\ hpc[t] = "dereg_ret" =>
                     IF InChain(pre, h)
                     THEN /\ hres[t].ret = kReturnOk
                          /\ ~InChain(post, h)
                          /\ Len(post) = Len(pre) - 1
                          /\ post = Without(pre, h)
                     ELSE hres[t].ret = kReturnPluginError /\ post = pre

C11_Witness ==
    \E t \in Threads :
        /\ hpc[t] = "reg_ret"
        /\ hres[t].ret = kReturnExistedResource
        /\ Len(hres[t].pre) = 2
        /\ hres[t].pre[2] = harg[t].handler

\* C12: OnPreUpdateServiceData(old, new) with both arguments non-null
\* invokes every handler of the chain exactly once, in chain order, and
\* returns without a call only when it saw the chain empty; a handler
\* registered with bFront true is placed before every handler registered
\* before it, one registered with bFront false after them; no handler is
\* ever given a null old or new instance collection.
C12_InvokeInChainOrder ==
    \A t \in Threads :
        /\ IsPrefix(InvokedHandlers(t), hround[t].round_chain)
        /\ NoDuplicate(InvokedHandlers(t))
        /\ \A i \in 1..Len(hinvoked[t]) :
               hinvoked[t][i].old # "NULL" /\ hinvoked[t][i].new # "NULL"
        /\ LoopDone(t) => InvokedHandlers(t) = hround[t].round_chain
        /\ hpc[t] = "early_return" =>
               /\ hinvoked[t] = <<>>
               /\ (hround[t].oldData # "NULL" /\ hround[t].newData # "NULL")
                      => hround[t].observed = <<>>
        /\ (hpc[t] = "reg_ret" /\ hres[t].ret = kReturnOk) =>
               instancePreUpdateHandlers_ =
                   IF harg[t].bFront
                   THEN <<harg[t].handler>> \o hres[t].pre
                   ELSE hres[t].pre \o <<harg[t].handler>>

C12_Witness ==
    \E t \in Threads, u \in Threads :
        /\ LoopDone(t)
        /\ Len(hinvoked[t]) = 2
        /\ hpc[u] = "reg_ret"
        /\ harg[u].bFront
        /\ hres[u].ret = kReturnOk
        /\ Len(hres[u].pre) = 1

\* C16: the chain is copied with the mutex held and the handlers run with
\* it released: a thread running handlers, or waiting for the mutex, never
\* holds it itself, and whoever holds it is inside Register or Deregister
\* and about to release it, so a handler that registers or deregisters is
\* not blocked for ever; the handlers invoked in a round are the copy taken
\* at its start, in its order, whatever the chain has become since.
C16_CopyUnderLockInvokeWithout ==
    /\ \A t \in Threads :
           /\ hpc[t] \in {"loop", "in_handler", "reg_wait", "dereg_wait",
                          "copy_wait"}
                  => instancePreUpdatelock_ # t
           /\ hpc[t] \in {"loop", "in_handler"} =>
                  /\ handlers[t] = hround[t].round_chain
                  /\ InvokedHandlers(t) =
                         SubSeq(hround[t].round_chain, 1,
                                IF hpc[t] = "loop" THEN hidx[t] - 1
                                ELSE hidx[t])
    /\ instancePreUpdatelock_ # NoThread =>
           hpc[instancePreUpdatelock_] \in
               {"reg_cs", "dereg_cs", "reg_ret", "dereg_ret"}

C16_Witness ==
    \E t \in Threads :
        /\ LoopDone(t)
        /\ hround[t].reentered
        /\ Len(hinvoked[t]) = 2
        /\ ~InChain(instancePreUpdateHandlers_, hinvoked[t][2].handler)

\* C19: every access to the handler vector, reads included, is made by a
\* thread holding the mutex, so no thread reads the vector while another is
\* modifying it.
C19_AccessUnderMutex ==
    \A t \in Threads :
        /\ hpc[t] \in {"reg_cs", "dereg_cs"} => instancePreUpdatelock_ = t
        /\ (/\ hpc[t] = "size_test"
            /\ hround[t].oldData # "NULL"
            /\ hround[t].newData # "NULL") =>
               /\ instancePreUpdatelock_ = t
               /\ \A u \in Threads \ {t} : ~Writing(u)

\* ------------------------------------------------------- executor claims
\* A run of TimingDetect has ended (the reactor thread is back in its loop).
RunEnded == epc = "idle" /\ runs > 0

DetectedServices == [k \in 1..Len(run.detected) |-> run.detected[k].service]

\* C13: in every run of TimingDetect each service context returned by
\* GetAllServiceContext gets DecrementRef exactly once, whether or not
\* DetectInstance failed for it or for another one; when the run ends every
\* reference count is what it was before the run; no count is ever below 0.
C13_DecrementRefOncePerService ==
    /\ \A s \in Services : ref_count[s] >= 0 /\ run.released[s] <= 1
    /\ epc = "detect" =>
           \A k \in 1..Len(all_service_contexts) :
               run.released[all_service_contexts[k]] = IF k < ei THEN 1 ELSE 0
    /\ (RunEnded \/ (epc = "detect" /\ ei > Len(all_service_contexts))) =>
           \A s \in Services :
               /\ ref_count[s] = run.ref_before[s]
               /\ run.released[s] = IF s \in service_contexts THEN 1 ELSE 0

C13_Witness ==
    /\ RunEnded
    /\ Len(run.detected) = 2
    /\ ~run.detected[1].ok
    /\ run.detected[2].ok
    /\ \A s \in Services : ref_count[s] = 1 /\ run.released[s] = 1

\* What C14 says of every state: the services of a run are visited in the
\* order of the vector, none skipped, and a run that has ended has called
\* AddTimingTask.
C14_NothingSkipped ==
    /\ epc = "detect" =>
           DetectedServices = SubSeq(all_service_contexts, 1, ei - 1)
    /\ RunEnded =>
           /\ DetectedServices = GetAllServiceContext(service_contexts)
           /\ Len(run.arm_calls) = 1
           /\ ~stop_requested => Len(timing_tasks) >= 1

\* C14: a failing DetectInstance does not keep the remaining services of the
\* run from being detected, and every run ends by arming the next one; so
\* unless the reactor is stopped TimingDetect runs, and runs again after
\* every run.
C14_FailureNeverStopsDetection ==
    /\ []C14_NothingSkipped
    /\ <>(runs > 0 \/ stop_requested)
    /\ (RunEnded /\ ~stop_requested) ~> (epc = "detect" \/ stop_requested)

C14_Witness ==
    /\ RunEnded
    /\ runs >= 2
    /\ ~stop_requested
    /\ Len(run.detected) = 2
    /\ ~run.detected[1].ok
    /\ timing_tasks = <<kDetectInterval>>

\* TimingDetect tasks pending in the reactor or running.
PendingOrRunning ==
    Len(task_queue) + Len(timing_tasks) + (IF epc = "detect" THEN 1 ELSE 0)

\* C17: SetupWork submits exactly one task to run at once; each run arms
\* exactly one timing task, with a delay of 1000 ms; so, on an executor
\* started by its Context, at most one TimingDetect is pending or running at
\* any moment; two consecutive runs begin at least 1000 ms apart; once the
\* reactor has shut down there is no DetectInstance.
C17_Schedule ==
    /\ PendingOrRunning <= 1
    /\ setups = 0 => task_queue = <<>> /\ runs = 0
    /\ (setups = 1 /\ ~stop_requested) => PendingOrRunning = 1
    /\ (setups = 1 /\ runs = 0 /\ ~stop_requested) =>
           task_queue = <<"TimingDetect">>
    /\ epc = "detect" => run.arm_calls = <<>>
    /\ RunEnded => run.arm_calls = <<kDetectInterval>>
    /\ (RunEnded /\ ~stop_requested) =>
           /\ Len(timing_tasks) = 1
           /\ since_run + timing_tasks[1] >= kDetectInterval
    /\ runs > 1 => last_gap >= kDetectInterval
    /\ reactor_stopped =>
           epc # "detect" /\ task_queue = <<>> /\ timing_tasks = <<>>

C17_Witness ==
    /\ setups = 1
    /\ reactor_stopped
    /\ runs >= 2
    /\ last_gap >= kDetectInterval
    /\ run.arm_calls = <<kDetectInterval>>
    /\ Len(run.detected) = 2

\* ------------------------------------------------------ ownership claims
\* C18: destroying a handle destroys its Context if and only if the Context
\* is in private mode; a Context in share or limit mode stays alive; over any
\* sequence of handle creations and destructions a Context is destroyed at
\* most once, and never while a live handle still refers to it.
C18_ContextOwnership ==
    /\ olast.handle # "none" =>
           /\ olast.deleted <=> olast.mode = kPrivateContext
           /\ olast.mode \in {kShareContext, kLimitContext} =>
                  context_state[olast.context] = "alive"
    /\ \A c \in Contexts : destroy_count[c] <= 1
    /\ olast.deleted => ~olast.referred

====
